---------------------------- MODULE Spec2Model ----------------------------
(***************************************************************************)
(* A model of pureport/cli/util.py: the adapter that turns the public      *)
(* callables of a client object into click commands and groups.            *)
(*                                                                         *)
(*   find_client_commands   discovery of the public callables of an object *)
(*   __create_client_command  leaf adapter (call, dump as JSON, echo)      *)
(*   __create_client_group    group adapter (call, publish as ctx.obj)     *)
(*   construct_commands     generator that builds the node tree            *)
(*                                                                         *)
(* The click primitives the module calls (command(), group(), add_command, *)
(* pass_obj, pass_context, echo) and the standard library ones             *)
(* (update_wrapper, dumps, dir) are modelled at the line that calls them.  *)
(***************************************************************************)
EXTENDS Integers, Sequences, FiniteSets, TLC

VARIABLES
    clickInPlace,  \* does the installed click reverse __click_params__ in place
    descriptors,   \* the argument of construct_commands
    nodes,         \* heap of click.Command / click.Group objects, by identity
    lists,         \* heap of list objects holding parameter specifications
    gen,           \* per generator object: frame state and loop position
    out,           \* per generator object: the nodes the consumer received
    stops,         \* per generator object: StopIterations seen after the end
    edits,         \* child additions/removals done by the consumer, per build
    pc,            \* click runtime: position of the one command-line invocation
    chain,         \* nodes whose callbacks ran in this invocation, in order
    ctxs,          \* ctx.obj of each click context, root first
    calls,         \* log of calls of underlying callables
    stdout,        \* text written by echo
    result,        \* value the leaf callback returned to its caller
    fresh,         \* allocator of receiver objects
    target,        \* find_client_commands: the object inspected
    dpc,           \* find_client_commands: position in the loop over dir(obj)
    found          \* find_client_commands: the list `commands`

buildVars == <<clickInPlace, descriptors, nodes, lists, gen, out, stops, edits>>
invokeVars == <<pc, chain, ctxs, calls, stdout, result, fresh>>
discoverVars == <<target, dpc, found>>
vars == <<buildVars, invokeVars, discoverVars>>

-----------------------------------------------------------------------------
(* Bounds *)

MaxNodes == 4       \* descriptors in the tree handed to construct_commands
MaxTwiceNodes == 2  \* the same, where the tree is built twice and then edited
MaxInvokeNodes == 3 \* the same, where a command line is then run on the built tree
MaxAttrs == 2       \* attributes of the object given to find_client_commands
MaxStops == 1       \* next() calls made on an exhausted generator
MaxEdits == 1       \* consumer edits of the children of built groups

-----------------------------------------------------------------------------
(* Small helpers *)

Reverse(s) == [i \in 1..Len(s) |-> s[Len(s) + 1 - i]]

Range(s) == {s[i] : i \in 1..Len(s)}

\* Python's None
None == <<"none">>


-----------------------------------------------------------------------------
(* The client whose methods are exposed: the callables the descriptors     *)
(* refer to (docstrings of __create_client_group / __create_client_command *)
(* name Client.accounts, AccountsClient.networks(account_id) and           *)
(* AccountClient.list).                                                    *)

Function(n) == [type |-> "function", fn |-> n]

Property(n) == [type |-> "property", fget |-> Function(n)]

\* a dict that has no 'context' key
BareDict == [type |-> "dict", keys |-> {}]

ContextGroup(ctx, cmds) ==
    [type |-> "dict", keys |-> {"context", "commands"}, context |-> ctx, commands |-> cmds]

\* what a group descriptor's 'context' can be, and what a leaf can be
Contexts == {Property("accounts"), Function("networks")}

Leaves == {Function("list"), Property("status"), BareDict}

\* the options/arguments declared on each function, in declaration order
Declared(n) ==
    CASE n = "list" -> <<"--limit", "--offset">>
      [] n = "networks" -> <<"account_id">>
      [] OTHER -> <<>>

\* identity of the list object stored as the function's __click_params__
\* (0: the attribute is absent)
ClickParams(n) ==
    CASE n = "list" -> 1
      [] n = "networks" -> 2
      [] OTHER -> 0

\* the @option/@argument decorators append bottom-up, so the stored list is
\* in reverse declaration order until a command is made of it
InitLists == <<Reverse(Declared("list")), Reverse(Declared("networks"))>>

-----------------------------------------------------------------------------
(* Descriptor trees with a bounded number of descriptors *)

RECURSIVE ForestExact(_), TreeExact(_)

TreeExact(k) ==
    IF k = 1
    THEN Leaves \cup {ContextGroup(c, <<>>) : c \in Contexts}
    ELSE {ContextGroup(c, cs) : c \in Contexts, cs \in ForestExact(k - 1)}

ForestExact(m) ==
    IF m = 0
    THEN {<<>>}
    ELSE UNION {{<<t>> \o r : t \in TreeExact(k), r \in ForestExact(m - k)} : k \in 1..m}

Forests(n) == UNION {ForestExact(m) : m \in 0..n}

-----------------------------------------------------------------------------
(* __create_client_group / __create_client_command: building a node *)

\* f.fget if isinstance(f, property) else f
ActualF(f) == IF f.type = "property" THEN f.fget ELSE f

\* update_wrapper(new_func, actual_f): new_func takes actual_f's __name__ and
\* the entries of its __dict__, by reference; what actual_f lacks stays as
\* new_func has it
UpdateWrapper(actual_f) ==
    IF actual_f.type = "function"
    THEN [name |-> actual_f.fn, click_params |-> ClickParams(actual_f.fn)]
    ELSE [name |-> "new_func", click_params |-> 0]

\* click names a command after its callback: lower case, '_' becomes '-'
CommandName(n) == IF n = "new_func" THEN "new-func" ELSE n

\* command()(new_func) / group()(new_func): the parameter specifications are
\* taken off new_func.__click_params__ and put in declaration order. click
\* before 8.1 reverses that list object in place and keeps it as the node's
\* params; click from 8.1 on leaves it alone and fills a list of its own.
MakeNode(h, kind, new_func, actual_f) ==
    LET id == new_func.click_params
        inplace == id # 0 /\ clickInPlace
        ls == IF inplace
              THEN [h.lists EXCEPT ![id] = Reverse(@)]
              ELSE Append(h.lists, IF id = 0 THEN <<>> ELSE Reverse(h.lists[id]))
        node == [kind |-> kind,
                 callback |-> actual_f,
                 name |-> CommandName(new_func.name),
                 params |-> IF inplace THEN id ELSE Len(ls),
                 commands |-> <<>>]
    IN  [h |-> [nodes |-> Append(h.nodes, node), lists |-> ls],
         id |-> Len(h.nodes) + 1]

\* a group adapter that hands out the node it made for the same callable before
CreateClientGroupCached(h, f) ==
    LET actual_f == ActualF(f)
        made == {n \in 1..Len(h.nodes) :
                    h.nodes[n].kind = "group" /\ h.nodes[n].callback = actual_f}
    IN  IF made # {}
        THEN [h |-> h, id |-> CHOOSE n \in made : TRUE]
        ELSE MakeNode(h, "group", UpdateWrapper(actual_f), actual_f)

CreateClientGroup(h, f) ==
    LET actual_f == ActualF(f)
    IN  MakeNode(h, "group", UpdateWrapper(actual_f), actual_f)

CreateClientCommand(h, f) ==
    LET actual_f == ActualF(f)
    IN  MakeNode(h, "command", UpdateWrapper(actual_f), actual_f)

\* grp.add_command(child_cmd): self.commands[cmd.name] = cmd, a dict in
\* insertion order: a name already present keeps its place and takes the
\* new node
\* a registry that puts the newest command first
DictSetFront(d, name, c) ==
    <<[name |-> name, node |-> c]>> \o SelectSeq(d, LAMBDA e : e.name # name)

DictSet(d, name, c) ==
    IF \E i \in 1..Len(d) : d[i].name = name
    THEN [i \in 1..Len(d) |-> IF d[i].name = name THEN [name |-> name, node |-> c] ELSE d[i]]
    ELSE Append(d, [name |-> name, node |-> c])

AddCommand(h, grp, c) ==
    [h EXCEPT !.nodes[grp].commands = DictSet(@, h.nodes[c].name, c)]

-----------------------------------------------------------------------------
(* construct_commands *)

IsGroupDescriptor(cmd) == cmd.type = "dict" /\ "context" \in cmd.keys

RECURSIVE BuildOne(_, _), AttachChildren(_, _, _)

\* one turn of the loop body: the node for one descriptor, children attached
BuildOne(h, cmd) ==
    IF IsGroupDescriptor(cmd)
    THEN LET g == CreateClientGroup(h, cmd.context)
         IN  [h |-> AttachChildren(g.h, g.id, cmd.commands), id |-> g.id]
    ELSE CreateClientCommand(h, cmd)

\* for child_cmd in construct_commands(cmd['commands']): grp.add_command(child_cmd)
AttachChildren(h, grp, cmds) ==
    IF cmds = <<>>
    THEN h
    ELSE LET b == BuildOne(h, Head(cmds))
         IN  AttachChildren(AddCommand(b.h, grp, b.id), grp, Tail(cmds))

Builds == {1, 2}

Heap == [nodes |-> nodes, lists |-> lists]

\* next(g) on a generator whose loop has a descriptor left: runs to the yield
GenYield(b) ==
    /\ gen[b].state # "done"
    /\ gen[b].pos <= Len(descriptors)
    /\ LET r == BuildOne(Heap, descriptors[gen[b].pos])
       IN  /\ nodes' = r.h.nodes
           /\ lists' = r.h.lists
           /\ out' = [out EXCEPT ![b] = Append(@, r.id)]
    /\ gen' = [gen EXCEPT ![b] = [state |-> "suspended", pos |-> @.pos + 1]]
    /\ UNCHANGED <<clickInPlace, descriptors, stops, edits>>
    /\ UNCHANGED <<invokeVars, discoverVars>>

\* next(g) when the loop is over: the generator returns (StopIteration)
GenReturn(b) ==
    /\ gen[b].state # "done"
    /\ gen[b].pos > Len(descriptors)
    /\ gen' = [gen EXCEPT ![b].state = "done"]
    /\ UNCHANGED <<clickInPlace, descriptors, nodes, lists, out, stops, edits>>
    /\ UNCHANGED <<invokeVars, discoverVars>>

\* a sequence that starts over when iterated again
GenRestart(b) ==
    /\ gen[b].state = "done"
    /\ stops[b] < MaxStops
    /\ stops' = [stops EXCEPT ![b] = @ + 1]
    /\ gen' = [gen EXCEPT ![b] = [state |-> "created", pos |-> 1]]
    /\ UNCHANGED <<clickInPlace, descriptors, nodes, lists, out, edits>>
    /\ UNCHANGED <<invokeVars, discoverVars>>

\* next(g) on a finished generator: StopIteration again, nothing runs
GenExhausted(b) ==
    /\ gen[b].state = "done"
    /\ stops[b] < MaxStops
    /\ stops' = [stops EXCEPT ![b] = @ + 1]
    /\ UNCHANGED <<clickInPlace, descriptors, nodes, lists, gen, out, edits>>
    /\ UNCHANGED <<invokeVars, discoverVars>>

-----------------------------------------------------------------------------
(* The consumer of the built nodes edits the children of a group           *)
(* (grp.add_command(node), del grp.commands[name]).                        *)

\* the nodes reachable from `roots` through the groups' commands
Children(n) == {nodes[n].commands[i].node : i \in 1..Len(nodes[n].commands)}

ReachStep(S) == S \cup UNION {Children(n) : n \in S}

RECURSIVE ReachFrom(_, _)

ReachFrom(S, k) == IF k = 0 \/ ReachStep(S) = S THEN S ELSE ReachFrom(ReachStep(S), k - 1)

Tree(b) == ReachFrom(Range(out[b]), Len(nodes))

AllDone == \A b \in Builds : gen[b].state = "done"

AddChild(b, g, c) ==
    /\ AllDone
    /\ edits[1] + edits[2] < MaxEdits
    /\ g \in Tree(b) /\ nodes[g].kind = "group"
    /\ c \in 1..Len(nodes) /\ nodes[c].kind = "command"
    /\ nodes' = AddCommand(Heap, g, c).nodes
    /\ edits' = [edits EXCEPT ![b] = @ + 1]
    /\ UNCHANGED <<clickInPlace, descriptors, lists, gen, out, stops>>
    /\ UNCHANGED <<invokeVars, discoverVars>>

RemoveChild(b, g, i) ==
    /\ AllDone
    /\ edits[1] + edits[2] < MaxEdits
    /\ g \in Tree(b) /\ nodes[g].kind = "group"
    /\ i \in 1..Len(nodes[g].commands)
    /\ nodes' = [nodes EXCEPT ![g].commands =
                    [j \in 1..(Len(@) - 1) |-> IF j < i THEN @[j] ELSE @[j + 1]]]
    /\ edits' = [edits EXCEPT ![b] = @ + 1]
    /\ UNCHANGED <<clickInPlace, descriptors, lists, gen, out, stops>>
    /\ UNCHANGED <<invokeVars, discoverVars>>

InitBuild(n) ==
    /\ clickInPlace \in BOOLEAN
    /\ descriptors \in Forests(n)
    /\ nodes = <<>>
    /\ lists = InitLists
    /\ gen = [b \in Builds |-> [state |-> "created", pos |-> 1]]
    /\ out = [b \in Builds |-> <<>>]
    /\ stops = [b \in Builds |-> 0]
    /\ edits = [b \in Builds |-> 0]

InitInvoke ==
    /\ pc = "idle"
    /\ chain = <<>>
    /\ ctxs = <<>>
    /\ calls = <<>>
    /\ stdout = <<>>
    /\ result = <<"unset">>
    /\ fresh = 0

InitDiscover ==
    /\ target = <<>>
    /\ dpc = [i |-> 1, returned |-> FALSE]
    /\ found = <<>>

\* one pass over the generator, and next() again after its end
InitBuildOnce == InitBuild(MaxNodes) /\ InitInvoke /\ InitDiscover

NextBuild ==
    \/ GenYield(1)
    \/ GenReturn(1)
    \/ GenExhausted(1)

SpecBuild == InitBuildOnce /\ [][NextBuild]_vars

\* the same descriptors built twice, then edits of the built trees
InitTwice == InitBuild(MaxTwiceNodes) /\ InitInvoke /\ InitDiscover

NextTwice ==
    \/ \E b \in Builds : GenYield(b)
    \/ \E b \in Builds : GenReturn(b)
    \/ \E b \in Builds, g, c \in 1..Len(nodes) : AddChild(b, g, c)
    \/ \E b \in Builds, g, i \in 1..Len(nodes) : RemoveChild(b, g, i)

SpecTwice == InitTwice /\ [][NextTwice]_vars

-----------------------------------------------------------------------------
(* Python values, json.dumps *)

PyInt(i) == <<"int", i>>
PyBool(b) == <<"bool", b>>
PyStr(x) == <<"str", x>>
PyList(xs) == <<"list", xs>>
PyDict(kvs) == <<"dict", kvs>>
Object(k) == <<"object", k>>
Generator == <<"generator">>

RECURSIVE Serializable(_)

Serializable(v) ==
    CASE v[1] \in {"none", "int", "bool", "str"} -> TRUE
      [] v[1] = "list" -> \A i \in 1..Len(v[2]) : Serializable(v[2][i])
      [] v[1] = "dict" -> \A i \in 1..Len(v[2]) : Serializable(v[2][i][2])
      [] OTHER -> FALSE

RECURSIVE Dumps(_), Join(_)

\* the texts of a container's items, separated by ", "
Join(texts) ==
    IF texts = <<>> THEN ""
    ELSE IF Len(texts) = 1 THEN texts[1]
    ELSE texts[1] \o ", " \o Join(Tail(texts))

\* json.dumps(v) for a serializable v
Dumps(v) ==
    CASE v[1] = "none" -> "null"
      [] v[1] = "int" -> ToString(v[2])
      [] v[1] = "bool" -> IF v[2] THEN "true" ELSE "false"
      [] v[1] = "str" -> "\"" \o v[2] \o "\""
      [] v[1] = "list" -> "[" \o Join([i \in 1..Len(v[2]) |-> Dumps(v[2][i])]) \o "]"
      [] v[1] = "dict" ->
            "{" \o Join([i \in 1..Len(v[2]) |->
                           "\"" \o v[2][i][1] \o "\": " \o Dumps(v[2][i][2])]) \o "}"

-----------------------------------------------------------------------------
(* The callbacks new_func of the two adapters, and the click runtime that  *)
(* runs them for one command line.                                         *)

\* what the called client method does this time
Returns(v) == [raises |-> FALSE, value |-> v]

Raises == [raises |-> TRUE, value |-> None]

LeafValues ==
    {None, PyInt(0), PyInt(7), PyBool(FALSE), PyStr(""), PyList(<<>>),
     PyList(<<PyDict(<<<<"id", PyInt(1)>>>>)>>),
     Generator, PyList(<<PyInt(1), Generator>>)}

LeafOutcomes == {Raises} \cup {Returns(v) : v \in LeafValues}

GroupOutcomes == {Raises, Returns(None), Returns(Object(fresh + 1))}

ArgLists == {<<>>, <<"a", "b">>}

Unset == <<"unset">>

Returned(v) == <<"returned", v>>

Raised(e) == <<"raised", e>>

\* actual_f(obj, *args, **kwargs): a log entry of the call and how it ends;
\* an actual_f that is no callable (a dict) raises TypeError uncalled
CallActualF(actual_f, obj, args, o) ==
    IF actual_f.type = "function"
    THEN [log |-> <<[fn |-> actual_f, recv |-> obj, args |-> args, ret |-> o]>>,
          raises |-> o.raises,
          exc |-> <<"from", actual_f.fn>>,
          value |-> o.value]
    ELSE [log |-> <<>>, raises |-> TRUE, exc |-> <<"TypeError", "not callable">>,
          value |-> None]

\* a leaf callback that tests the response for truth instead of for None
CommandNewFuncTruthy(actual_f, obj, args, o) ==
    LET c == CallActualF(actual_f, obj, args, o)
        falsy == {None, PyInt(0), PyBool(FALSE), PyStr(""), PyList(<<>>)}
    IN  IF c.raises
        THEN [log |-> c.log, echo |-> <<>>, result |-> Raised(c.exc)]
        ELSE IF c.value \notin falsy /\ ~Serializable(c.value)
        THEN [log |-> c.log, echo |-> <<>>, result |-> Raised(<<"TypeError", "dumps">>)]
        ELSE [log |-> c.log,
              echo |-> IF c.value \notin falsy THEN <<Dumps(c.value)>> ELSE <<>>,
              result |-> Returned(c.value)]

\* a leaf callback that reports a failed call on standard output
CommandNewFuncCatch(actual_f, obj, args, o) ==
    LET c == CallActualF(actual_f, obj, args, o)
    IN  IF c.raises
        THEN [log |-> c.log, echo |-> <<"error">>, result |-> Returned(None)]
        ELSE IF c.value # None /\ ~Serializable(c.value)
        THEN [log |-> c.log, echo |-> <<>>, result |-> Raised(<<"TypeError", "dumps">>)]
        ELSE [log |-> c.log,
              echo |-> IF c.value # None THEN <<Dumps(c.value)>> ELSE <<>>,
              result |-> Returned(c.value)]

\* a leaf callback that falls back to other text for what JSON cannot encode
CommandNewFuncFallback(actual_f, obj, args, o) ==
    LET c == CallActualF(actual_f, obj, args, o)
    IN  IF c.raises
        THEN [log |-> c.log, echo |-> <<>>, result |-> Raised(c.exc)]
        ELSE IF c.value # None /\ ~Serializable(c.value)
        THEN [log |-> c.log, echo |-> <<"<object>">>, result |-> Returned(c.value)]
        ELSE [log |-> c.log,
              echo |-> IF c.value # None THEN <<Dumps(c.value)>> ELSE <<>>,
              result |-> Returned(c.value)]

\* __create_client_command.new_func(obj, *args, **kwargs): the calls made,
\* the texts echoed and how the callback ends
CommandNewFunc(actual_f, obj, args, o) ==
    LET c == CallActualF(actual_f, obj, args, o)
    IN  IF c.raises
        THEN [log |-> c.log, echo |-> <<>>, result |-> Raised(c.exc)]
        ELSE IF c.value # None /\ ~Serializable(c.value)
        THEN [log |-> c.log, echo |-> <<>>, result |-> Raised(<<"TypeError", "dumps">>)]
        ELSE [log |-> c.log,
              echo |-> IF c.value # None THEN <<Dumps(c.value)>> ELSE <<>>,
              result |-> Returned(c.value)]

\* a group callback that calls the method and leaves ctx.obj alone
GroupNewFuncNoPublish(actual_f, obj, args, o) ==
    LET c == CallActualF(actual_f, obj, args, o)
    IN  [log |-> c.log,
         obj |-> obj,
         result |-> IF c.raises THEN Raised(c.exc) ELSE Returned(None)]

\* __create_client_group.new_func(ctx, obj, *args, **kwargs): the calls made,
\* ctx.obj afterwards and how the callback ends
GroupNewFunc(actual_f, obj, args, o) ==
    LET c == CallActualF(actual_f, obj, args, o)
    IN  [log |-> c.log,
         obj |-> IF c.raises THEN obj ELSE c.value,
         result |-> IF c.raises THEN Raised(c.exc) ELSE Returned(None)]

\* the client object the command line starts from
Client == Object(0)

\* a callback that is always handed the root context's object
PassRootObj(cs) == cs[1]

\* @pass_obj: the callback gets the obj of the current context, which click
\* creates with the obj its parent context holds at that moment
PassObj(cs) == cs[Len(cs)]

\* the commands the next word of the command line can name: the children of
\* the group that ran last, or at the root the nodes construct_commands yielded
Candidates ==
    IF chain = <<>> THEN Range(out[1]) ELSE Children(chain[Len(chain)].node)

\* the call log of the callback run for the k-th word of the command line
Stamp(log, k) == [i \in 1..Len(log) |-> [call |-> log[i], by |-> k]]

\* the program starts: every yielded node is registered, the root context
\* holds the client
Start ==
    /\ pc = "idle"
    /\ gen[1].state = "done"
    /\ pc' = "resolve"
    /\ ctxs' = <<Client>>
    /\ UNCHANGED <<chain, calls, stdout, result, fresh>>
    /\ UNCHANGED <<buildVars, discoverVars>>

\* the next word names a group: its callback runs, then the word after it
\* is resolved
InvokeGroup(n, args, o) ==
    /\ pc = "resolve"
    /\ n \in Candidates /\ nodes[n].kind = "group"
    /\ LET r == GroupNewFunc(nodes[n].callback, PassObj(ctxs), args, o)
       IN  /\ calls' = calls \o Stamp(r.log, Len(chain) + 1)
           /\ ctxs' = Append(ctxs, r.obj)
           /\ pc' = IF r.result[1] = "raised" THEN "error" ELSE "resolve"
           /\ result' = IF r.result[1] = "raised" THEN r.result ELSE result
    /\ chain' = Append(chain, [node |-> n, args |-> args])
    /\ fresh' = IF o.value = Object(fresh + 1) THEN fresh + 1 ELSE fresh
    /\ UNCHANGED <<stdout, buildVars, discoverVars>>

\* the next word names a command: its callback runs and the program ends
InvokeCommand(n, args, o) ==
    /\ pc = "resolve"
    /\ n \in Candidates /\ nodes[n].kind = "command"
    /\ LET r == CommandNewFunc(nodes[n].callback, PassObj(ctxs), args, o)
       IN  /\ calls' = calls \o Stamp(r.log, Len(chain) + 1)
           /\ stdout' = stdout \o r.echo
           /\ result' = r.result
           /\ pc' = IF r.result[1] = "raised" THEN "error" ELSE "done"
    /\ ctxs' = Append(ctxs, PassObj(ctxs))
    /\ chain' = Append(chain, [node |-> n, args |-> args])
    /\ UNCHANGED <<fresh, buildVars, discoverVars>>

\* the next word names no command of the group, or is missing
NoSuchCommand ==
    /\ pc = "resolve"
    /\ pc' = "error"
    /\ result' = Raised(<<"UsageError", "no such command">>)
    /\ UNCHANGED <<chain, ctxs, calls, stdout, fresh>>
    /\ UNCHANGED <<buildVars, discoverVars>>

\* a tree is built, then one command line is run on it
Init == InitBuild(MaxInvokeNodes) /\ InitInvoke /\ InitDiscover

Next ==
    \/ GenYield(1)
    \/ GenReturn(1)
    \/ Start
    \/ \E n \in 1..Len(nodes), args \in ArgLists, o \in GroupOutcomes : InvokeGroup(n, args, o)
    \/ \E n \in 1..Len(nodes), args \in ArgLists, o \in LeafOutcomes : InvokeCommand(n, args, o)
    \/ NoSuchCommand

Spec == Init /\ [][Next]_vars

-----------------------------------------------------------------------------
(* Properties of one command-line invocation *)

LastNode == chain[Len(chain)].node

LeafRan == chain # <<>> /\ nodes[LastNode].kind = "command"

CallsBy(k) == SelectSeq(calls, LAMBDA c : c.by = k)

\* the JSON texts expected for the values a leaf returns here
JsonText(v) ==
    CASE v = PyInt(0) -> "0"
      [] v = PyInt(7) -> "7"
      [] v = PyBool(FALSE) -> "false"
      [] v = PyStr("") -> "\"\""
      [] v = PyList(<<>>) -> "[]"
      [] v = PyList(<<PyDict(<<<<"id", PyInt(1)>>>>)>>) -> "[{\"id\": 1}]"

\* C1: a leaf command built from function f, run with receiver r and
\* arguments args, calls f(r, args) exactly once; when f returns v the
\* callback returns v, and standard output holds json.dumps(v) once if v is
\* not None (0, false, "" and [] included) and nothing if v is None.
C1_LeafCallsOnceAndEchoesJson ==
    (LeafRan /\ nodes[LastNode].callback.type = "function") =>
        LET k == Len(chain)
            mine == CallsBy(k)
        IN  /\ Len(mine) = 1
            /\ Cardinality({j \in 1..Len(calls) :
                              calls[j].call.fn = nodes[LastNode].callback}) = 1
            /\ mine[1].call.fn = nodes[LastNode].callback
            /\ mine[1].call.recv = ctxs[k]
            /\ mine[1].call.args = chain[k].args
            /\ LET ret == mine[1].call.ret
               IN  (~ret.raises /\ (ret.value = None \/ Serializable(ret.value))) =>
                      /\ pc = "done"
                      /\ result = Returned(ret.value)
                      /\ stdout = IF ret.value = None THEN <<>> ELSE <<JsonText(ret.value)>>

\* a leaf inside a group was called with (a, b), returned False, and "false"
\* was written
C1_Witness ==
    /\ pc = "done" /\ Len(chain) = 2 /\ LeafRan
    /\ chain[2].args = <<"a", "b">>
    /\ result = Returned(PyBool(FALSE))
    /\ stdout = <<"false">>

AllGroups == \A k \in 1..Len(chain) : nodes[chain[k].node].kind = "group"

\* C2: a group built from g, reached with receiver r, calls g(r, args)
\* exactly once and writes nothing; the command invoked next within it gets
\* the value g returned as its receiver (so never r, unless g returned r's
\* own value).
C2_GroupPublishesReceiver ==
    /\ AllGroups => stdout = <<>>
    /\ \A k \in 1..Len(chain) :
          nodes[chain[k].node].kind = "group" =>
              LET mine == CallsBy(k)
              IN  /\ Len(mine) = 1
                  /\ mine[1].call.fn = nodes[chain[k].node].callback
                  /\ mine[1].call.recv = ctxs[k]
                  /\ mine[1].call.args = chain[k].args
                  /\ k < Len(chain) =>
                        /\ ~mine[1].call.ret.raises
                        /\ ctxs[k + 1] = mine[1].call.ret.value
                        /\ \A j \in 1..Len(calls) :
                              calls[j].by = k + 1 =>
                                  /\ calls[j].call.recv = mine[1].call.ret.value
                                  /\ mine[1].call.ret.value # ctxs[k] =>
                                        calls[j].call.recv # ctxs[k]

\* a group returned a new object and its child command was called on it
C2_Witness ==
    /\ Len(chain) = 2 /\ LeafRan /\ Len(calls) = 2
    /\ nodes[chain[1].node].kind = "group"
    /\ calls[1].call.recv = Client
    /\ calls[2].call.recv = Object(1)

ExampleTree == <<ContextGroup(Property("accounts"), <<Function("list")>>)>>

ExampleResult == PyList(<<PyDict(<<<<"id", PyInt(1)>>>>)>>)

\* C3: the callables of one command line g1 ... gn c run in that order, once
\* each, along a path of the tree; g1 is called on the client, every next
\* one on what the one before returned; output appears only once all
\* ancestor groups have run and the leaf has returned. For the tree
\* [{context: accounts, commands: [list]}] the calls are accounts(client),
\* then list(that result), and the output is [{"id": 1}].
C3_OuterToInnerChain ==
    /\ Len(calls) <= Len(chain)
    /\ \A j \in 1..Len(calls) :
          /\ calls[j].by = j
          /\ calls[j].call.fn = nodes[chain[j].node].callback
          /\ calls[j].call.recv = IF j = 1 THEN Client ELSE calls[j - 1].call.ret.value
    /\ \A k \in 1..Len(chain) :
          /\ chain[k].node \in (IF k = 1 THEN Range(out[1]) ELSE Children(chain[k - 1].node))
          /\ k < Len(chain) => nodes[chain[k].node].kind = "group"
          /\ nodes[chain[k].node].callback.type = "function" => Len(calls) >= k
    /\ stdout # <<>> =>
          /\ pc = "done" /\ LeafRan
          /\ Len(calls) = Len(chain)
          /\ \A j \in 1..Len(calls) : ~calls[j].call.ret.raises
    /\ (descriptors = ExampleTree /\ pc = "done"
            /\ calls[Len(calls)].call.ret.value = ExampleResult) =>
          /\ [j \in 1..Len(calls) |-> calls[j].call.fn] =
                <<Function("accounts"), Function("list")>>
          /\ calls[1].call.recv = Client
          /\ calls[2].call.recv = calls[1].call.ret.value
          /\ stdout = <<"[{\"id\": 1}]">>

\* two nested groups and a leaf ran, the leaf on the inner group's object,
\* and the leaf's JSON was written
C3_Witness ==
    /\ pc = "done" /\ Len(chain) = 3 /\ Len(calls) = 3
    /\ calls[2].call.recv = Object(1)
    /\ calls[3].call.recv = Object(2)
    /\ stdout = <<"[{\"id\": 1}]">>

\* C8: when the callable of a leaf or of a group raises, the invocation ends
\* with that very exception: nothing is written and nothing is returned; a
\* group whose callable raised keeps the ctx.obj it had, and no command
\* below it runs.
C8_ExceptionsPropagate ==
    \A j \in 1..Len(calls) :
        calls[j].call.ret.raises =>
            /\ j = Len(calls) /\ calls[j].by = Len(chain)
            /\ pc = "error"
            /\ result = Raised(<<"from", calls[j].call.fn.fn>>)
            /\ stdout = <<>>
            /\ ctxs[Len(chain) + 1] = ctxs[Len(chain)]

\* a leaf inside a group raised
C8_Witness ==
    /\ Len(chain) = 2 /\ LeafRan /\ Len(calls) = 2
    /\ calls[2].call.ret.raises
    /\ pc = "error"

\* C9: when the leaf's callable returns a value other than None that JSON
\* cannot encode, the callable has been called once, the invocation ends in
\* an error, nothing is written and no result is returned.
C9_UnserializableIsFatal ==
    (LeafRan /\ CallsBy(Len(chain)) # <<>>) =>
        LET c == CallsBy(Len(chain))[1].call
        IN  (~c.ret.raises /\ c.ret.value # None /\ ~Serializable(c.ret.value)) =>
                /\ Len(CallsBy(Len(chain))) = 1
                /\ pc = "error"
                /\ result = Raised(<<"TypeError", "dumps">>)
                /\ stdout = <<>>

\* a leaf returned a list holding a generator
C9_Witness ==
    /\ LeafRan /\ pc = "error"
    /\ calls # <<>>
    /\ calls[Len(calls)].call.ret = Returns(PyList(<<PyInt(1), Generator>>))

-----------------------------------------------------------------------------
(* Properties of construct_commands *)

\* the callable a descriptor's node wraps, and the name click gives the node
Wrapped(d) == ActualF(IF IsGroupDescriptor(d) THEN d.context ELSE d)

EntryName(d) == CommandName(UpdateWrapper(Wrapped(d)).name)

RECURSIVE Size(_), SizeAll(_)

Size(d) == IF IsGroupDescriptor(d) THEN 1 + SizeAll(d.commands) ELSE 1

SizeAll(ds) == IF ds = <<>> THEN 0 ELSE Size(Head(ds)) + SizeAll(Tail(ds))

\* node n is the node of descriptor d, with one child per entry, in order
RECURSIVE Exact(_, _)

Exact(n, d) ==
    /\ nodes[n].kind = (IF IsGroupDescriptor(d) THEN "group" ELSE "command")
    /\ nodes[n].callback = Wrapped(d)
    /\ IF IsGroupDescriptor(d)
       THEN /\ Len(nodes[n].commands) = Len(d.commands)
            /\ \A j \in 1..Len(d.commands) : Exact(nodes[n].commands[j].node, d.commands[j])
       ELSE nodes[n].commands = <<>>

\* node n is the node of descriptor d, with one child per distinct entry name:
\* names in order of first occurrence, each bound to the node of the last
\* entry of that name
RECURSIVE Wired(_, _)

Wired(n, d) ==
    /\ nodes[n].kind = (IF IsGroupDescriptor(d) THEN "group" ELSE "command")
    /\ nodes[n].callback = Wrapped(d)
    /\ IF IsGroupDescriptor(d)
       THEN LET es == d.commands
                cs == nodes[n].commands
                Before(j) == {EntryName(es[i]) : i \in 1..(j - 1)}
                First(nm) == CHOOSE j \in 1..Len(es) :
                                EntryName(es[j]) = nm /\ nm \notin Before(j)
                Last(nm) == CHOOSE j \in 1..Len(es) :
                                /\ EntryName(es[j]) = nm
                                /\ \A i \in (j + 1)..Len(es) : EntryName(es[i]) # nm
            IN  /\ Len(cs) = Cardinality({EntryName(es[j]) : j \in 1..Len(es)})
                /\ \A k \in 1..Len(cs) :
                      /\ cs[k].name \in {EntryName(es[j]) : j \in 1..Len(es)}
                      /\ Cardinality(Before(First(cs[k].name))) = k - 1
                      /\ Wired(cs[k].node, es[Last(cs[k].name)])
       ELSE nodes[n].commands = <<>>

DistinctSiblingNames(d) ==
    \/ ~IsGroupDescriptor(d)
    \/ \A i, j \in 1..Len(d.commands) :
          EntryName(d.commands[i]) = EntryName(d.commands[j]) => i = j

\* C5 as claimed: after a complete pass the consumer holds one node per
\* top-level descriptor, in input order, a group exactly for the dicts with
\* a 'context' key, and every group has exactly one child per entry of its
\* 'commands' list, in list order, at every depth.
C5_ExactlyOneChildPerEntry ==
    \A b \in Builds :
        (gen[b].state = "done" /\ edits[b] = 0) =>
            /\ Len(out[b]) = Len(descriptors)
            /\ \A i \in 1..Len(out[b]) : Exact(out[b][i], descriptors[i])

\* C5 amended: the same, except that a group keeps one child per distinct
\* command name among its entries (in order of first occurrence, bound to
\* the node of the last entry of that name); so one child per entry, in list
\* order, wherever sibling names are pairwise distinct.
C5_OneChildPerEntryName ==
    \A b \in Builds :
        (gen[b].state = "done" /\ edits[b] = 0) =>
            /\ Len(out[b]) = Len(descriptors)
            /\ \A i \in 1..Len(out[b]) :
                  /\ Wired(out[b][i], descriptors[i])
                  /\ nodes[out[b][i]].kind =
                        (IF IsGroupDescriptor(descriptors[i]) THEN "group" ELSE "command")
                  /\ (DistinctSiblingNames(descriptors[i]) /\ IsGroupDescriptor(descriptors[i]))
                        => Len(nodes[out[b][i]].commands) = Len(descriptors[i].commands)

\* a finished build of a group whose two entries have the same name: the
\* group holds one child, the node built for the second entry
C5_Witness ==
    /\ gen[1].state = "done"
    /\ Len(descriptors) = 1 /\ IsGroupDescriptor(descriptors[1])
    /\ Len(descriptors[1].commands) = 2
    /\ EntryName(descriptors[1].commands[1]) = EntryName(descriptors[1].commands[2])
    /\ Len(nodes) = 3
    /\ nodes[out[1][1]].commands = <<[name |-> nodes[3].name, node |-> 3]>>

\* what a node looks like from outside: its kind, callable, name, parameter
\* specifications and children
RECURSIVE Shape(_)

Shape(n) ==
    [kind |-> nodes[n].kind,
     callback |-> nodes[n].callback,
     name |-> nodes[n].name,
     params |-> lists[nodes[n].params],
     kids |-> [j \in 1..Len(nodes[n].commands) |-> Shape(nodes[n].commands[j].node)]]

Shapes(b) == [i \in 1..Len(out[b]) |-> Shape(out[b][i])]

C6_DistinctAndEquivalent ==
    (AllDone /\ edits[1] + edits[2] = 0) =>
        /\ Tree(1) \cap Tree(2) = {}
        /\ Shapes(1) = Shapes(2)

C6_EditsStayInTheirTree ==
    \A b \in Builds :
        edits'[b] # edits[b] =>
            \A n \in Tree(3 - b) : nodes'[n].commands = nodes[n].commands

\* C6: two builds of the same descriptors give node trees of the same shape
\* made of different nodes, and a child addition or removal done on a node of
\* one tree leaves the children of every node of the other tree as they were.
C6_IndependentBuilds == [](C6_DistinctAndEquivalent) /\ [][C6_EditsStayInTheirTree]_vars

\* both trees built, a child of the first tree's group removed, the second
\* tree's group still holding its child
C6_Witness ==
    /\ AllDone
    /\ edits[1] = 1 /\ edits[2] = 0
    /\ Len(out[1]) = 1 /\ nodes[out[1][1]].kind = "group" /\ nodes[out[2][1]].kind = "group"
    /\ nodes[out[1][1]].commands = <<>>
    /\ Len(nodes[out[2][1]].commands) = 1

\* C7 as claimed: every built node exposes the parameter specifications
\* declared on its function, in declaration order, and the list stored on
\* the function itself is as it was before any node was built.
C7_ParamsRoundTrip ==
    /\ \A n \in 1..Len(nodes) :
          nodes[n].callback.type = "function" =>
              lists[nodes[n].params] = Declared(nodes[n].callback.fn)
    /\ \A f \in {"list", "networks"} : lists[ClickParams(f)] = InitLists[ClickParams(f)]

PrefixSize(b) == SizeAll(SubSeq(descriptors, 1, Len(out[b])))

C10_LazyAndWired ==
    /\ Len(nodes) = PrefixSize(1) + PrefixSize(2)
    /\ \A b \in Builds :
          /\ Len(out[b]) = gen[b].pos - 1
          /\ Len(out[b]) <= Len(descriptors)
          /\ gen[b].state = "created" => out[b] = <<>>
          /\ gen[b].state = "done" => Len(out[b]) = Len(descriptors)
          /\ \A i \in 1..Len(out[b]) : Wired(out[b][i], descriptors[i])

C10_OnePerRequestNoneAfterEnd ==
    \A b \in Builds :
        /\ Len(out'[b]) <= Len(out[b]) + 1
        /\ gen[b].state = "done" => (out'[b] = out[b] /\ gen'[b] = gen[b] /\ nodes' = nodes)

-----------------------------------------------------------------------------
(* find_client_commands *)

\* attribute names, as the code points of their characters:
\* "A", "_", "__", "_a", "a", "a_", "ab", "b"
Names == {<<65>>, <<95>>, <<95, 95>>, <<95, 97>>, <<97>>, <<97, 95>>, <<97, 98>>, <<98>>}

Underscore == 95

\* what getattr(obj, name) can resolve to: the kind of object and which one
\* (two names can be bound to the same object)
Kinds == {"function", "method", "generatorfunction", "class", "int"}

AttrValues == {<<k, id>> : k \in Kinds, id \in 1..2}

Objects ==
    UNION {[S -> AttrValues] : S \in {T \in SUBSET Names : Cardinality(T) <= MaxAttrs}}

\* the order of Python strings: by code point, a proper prefix first
LexLess(a, b) ==
    \/ Len(a) < Len(b) /\ \A i \in 1..Len(a) : a[i] = b[i]
    \/ \E i \in 1..Len(a) :
          /\ i <= Len(b)
          /\ a[i] < b[i]
          /\ \A j \in 1..(i - 1) : a[j] = b[j]

RECURSIVE Sorted(_)

Sorted(S) ==
    IF S = {} THEN <<>>
    ELSE LET m == CHOOSE x \in S : \A y \in S \ {x} : LexLess(x, y)
         IN  <<m>> \o Sorted(S \ {m})

\* dir(obj): the attribute names, sorted
Dir(obj) == Sorted(DOMAIN obj)

\* name.startswith('_')
StartsWithUnderscore(name) == name[1] = Underscore

\* a test that takes anything callable
IsCallable(attr) == attr[1] \in {"function", "method", "generatorfunction", "class"}

\* isgeneratorfunction(attr) or isfunction(attr) or ismethod(attr)
IsCommand(attr) ==
    attr[1] = "generatorfunction" \/ attr[1] = "function" \/ attr[1] = "method"

\* one turn of the loop over dir(obj)
Inspect ==
    /\ ~dpc.returned
    /\ dpc.i <= Len(Dir(target))
    /\ LET name == Dir(target)[dpc.i]
       IN  found' = IF ~StartsWithUnderscore(name) /\ IsCommand(target[name])
                    THEN Append(found, target[name])
                    ELSE found
    /\ dpc' = [dpc EXCEPT !.i = @ + 1]
    /\ UNCHANGED <<target, buildVars, invokeVars>>

\* return commands
ReturnCommands ==
    /\ ~dpc.returned
    /\ dpc.i > Len(Dir(target))
    /\ dpc' = [dpc EXCEPT !.returned = TRUE]
    /\ UNCHANGED <<target, found, buildVars, invokeVars>>

InitDiscovery ==
    /\ InitBuild(0) /\ clickInPlace = FALSE
    /\ InitInvoke
    /\ target \in Objects
    /\ dpc = [i |-> 1, returned |-> FALSE]
    /\ found = <<>>

NextDiscovery == Inspect \/ ReturnCommands

SpecDiscovery == InitDiscovery /\ [][NextDiscovery]_vars

\* the public attributes that are a function, a bound method or a generator
\* function
Public == {n \in DOMAIN target :
              n[1] # Underscore /\ target[n][1] \in {"function", "method", "generatorfunction"}}

Rank(n) == Cardinality({m \in Public : LexLess(m, n)})

\* C4: find_client_commands(O) returns, once each and in the sorted order of
\* their names, the values of exactly those attributes of O whose name does
\* not start with an underscore and whose value is a function, a bound method
\* or a generator function.
C4_ExactlyThePublicFunctions ==
    dpc.returned =>
        /\ Len(found) = Cardinality(Public)
        /\ \A n \in Public : found[Rank(n) + 1] = target[n]

\* an object with a private function and a public function: one command found
C4_Witness ==
    /\ dpc.returned
    /\ DOMAIN target = {<<95, 97>>, <<97>>}
    /\ target[<<95, 97>>][1] = "function"
    /\ target[<<97>>][1] = "method"
    /\ Len(found) = 1

=============================================================================
